---- MODULE Spec2Model ----
(***************************************************************************)
(* A model of src/core/reactive.ts: Observer, Subject, Subscription,       *)
(* Observable with its operators (take, do, map, mergeMap, join) and the   *)
(* creation functions (empty, of, from, range, interval, merge, fromEvent),*)
(* and of ElementWrapper.addEventListener$ of the DOM wrapper.             *)
(*                                                                         *)
(* Every call of a subscribe function creates one closure record (a        *)
(* "node") holding the local variables that call captured.  A callback is  *)
(* a reference <<node, port>>: the node whose closure it belongs to and    *)
(* which of its callbacks it is.  Synchronous calls are evaluated by the   *)
(* mutually recursive operators Subscribe, Deliver and Dispose, which      *)
(* thread the heap through every statement in program order; the host's    *)
(* event loop (timers, user calls) is the next-state relation.             *)
(***************************************************************************)
EXTENDS Integers, Sequences, FiniteSets, TLC

\* ------------------------------------------------------------------ bounds
MaxVal == 2          \* values carried by streams are 1..MaxVal
MaxLen == 2          \* longest array handed to from()
MaxTake == 3         \* largest n handed to take()
MaxTicks == 3        \* setInterval callbacks run in all
MaxCalls == 2        \* user calls of Subject.next/error/complete
MaxSubs == 2         \* subscribe() calls the caller makes on the program
MaxDispose == 2      \* dispose() calls the caller makes in all
MaxReemit == 2       \* subject.next calls a subscriber makes from inside next
MaxSources == 2      \* sources handed to merge()
MaxEvents == 2       \* events dispatched on the element
MaxDemoTicks == 12   \* setInterval callbacks run under the demo pipeline
MaxPending == 2      \* of(i) timers the demo pipeline has pending at once
\* The count index.ts hands to take().
DemoTake == 10

Vals == 1..MaxVal

RECURSIVE SeqsUpTo(_)
SeqsUpTo(k) == IF k = 0 THEN {<<>>} ELSE SeqsUpTo(k - 1) \cup [1..k -> Vals]

Arrays == SeqsUpTo(MaxLen)

\* ---------------------------------------------------------------- signals
\* A value travelling on a stream: a number, or the array join() emits.
Num(x) == [arr |-> FALSE, n |-> x, s |-> <<>>]
Arr(xs) == [arr |-> TRUE, n |-> 0, s |-> xs]
NoVal == Num(0)

NextSig(v) == [t |-> "next", v |-> v, msg |-> ""]
ErrorSig(m) == [t |-> "error", v |-> NoVal, msg |-> m]
CompleteSig == [t |-> "complete", v |-> NoVal, msg |-> ""]

\* A callback reference: the closure (node) it belongs to and its role there.
\* k numbers the callbacks of one role (merge: the source's index).
Ref(node, port, k) == [node |-> node, port |-> port, k |-> k]
NoRef == Ref(0, "none", 0)

\* prog       the Observable the caller built and how the caller behaves
\* nodes      the closures created by subscribe calls, by id
\* timers     the pending setTimeout(.., 0) callbacks, in the order they were set
\* observers  Subject.observers (ids of its Observers)
\* trace      every callback call made so far, and the caller's own calls
\* subs       per subscribe() call of the caller: its callbacks and its Subscription
\* dom        the element: its event listeners in registration order, and the
\*            variables isdisposed and eventHandler of the one
\*            addEventListener$ call that built the Observable
VARIABLES prog, nodes, timers, observers, trace, subs, dom

vars == <<prog, nodes, timers, observers, trace, subs, dom>>

\* The heap the synchronous code runs on.  thrown: an exception was thrown
\* and not caught; every statement up to the end of the running event-loop
\* task is skipped.
Heap ==
  [nodes |-> nodes, timers |-> timers, observers |-> observers, trace |-> trace, thrown |-> FALSE, dom |-> dom]

\* ------------------------------------------------------------ expressions
\* An Observable is described by the expression that built it.
Empty == [op |-> "empty"]
Of(value) == [op |-> "of", value |-> value]
From(values) == [op |-> "from", values |-> values]
Interval == [op |-> "interval"]
SubjectObs == [op |-> "subject"]
Merge(sources) == [op |-> "merge", sources |-> sources]
Take(src, n) == [op |-> "take", src |-> src, n |-> n]
Do(src) == [op |-> "do", src |-> src]
Map(src, fn) == [op |-> "map", src |-> src, fn |-> fn]
MergeMap(src, fn) == [op |-> "mergeMap", src |-> src, fn |-> fn]
Join(src) == [op |-> "join", src |-> src]
FromEvent == [op |-> "fromEvent"]
AddEventListener == [op |-> "addEventListener$"]

\* The element with no listener, and addEventListener$'s variables as
\* declared (eventHandler null: 0).
NoListeners == [listeners |-> <<>>, isdisposed |-> FALSE, eventHandler |-> 0]

\* The functions handed to map: named, and computed.  Compose(f, g) names
\* the function v => g(f(v)).
MapFns == {"double", "inc"}
Compose(f, g) == f \o "." \o g
ApplyFn(fn, n) == IF fn = "double" THEN n * 2 ELSE n + 1
\* "incOrThrow" names v => { if (v === 2) throw new Error(); return v + 1; }.
Throws(fn, v) == fn = "incOrThrow" /\ v.n = 2
ApplyMap(fn, v) ==
  IF \E f, g \in MapFns : fn = Compose(f, g)
  THEN LET p == CHOOSE p \in MapFns \X MapFns : fn = Compose(p[1], p[2])
       IN Num(ApplyFn(p[2], ApplyFn(p[1], v.n)))
  ELSE Num(ApplyFn(fn, v.n))

\* The functions handed to mergeMap: each builds an inner Observable.
ApplyMergeMap(fn, v) ==
  CASE fn = "of" -> Of(v)
    [] fn = "empty" -> Empty
    [] fn = "interval" -> Interval
    [] OTHER -> From(<<v, v>>)

\* ------------------------------------------------------------------ heap
\* The variables one call of a subscribe function captures.
NewNode(kind, obs) ==
  [kind |-> kind, obs |-> obs, n |-> 0, i |-> 0, value |-> NoVal,
   values |-> <<>>, isdisposed |-> FALSE, intervalHandler |-> FALSE,
   subscription |-> 0, subscriptions |-> <<>>, completeCount |-> 0,
   fn |-> "", react |-> "none", budget |-> 0]

NextId(h) == Len(h.nodes) + 1
Alloc(h, node) == [h EXCEPT !.nodes = Append(@, node)]

RECURSIVE Subscribe(_, _, _), Deliver(_, _, _), Dispose(_, _)

\* The caller's own calls are recorded beside the callback calls.
Mark(h, id, port, sig) == [h EXCEPT !.trace = Append(@, [node |-> id, port |-> port, k |-> 0, sig |-> sig])]
SubscribeSig == [t |-> "subscribe", v |-> NoVal, msg |-> ""]
ReturnedSig == [t |-> "returned", v |-> NoVal, msg |-> ""]
DisposeSig == [t |-> "dispose", v |-> NoVal, msg |-> ""]

\* Observer.next / error / complete: call the stored callback.
ObserverCall(h, id, sig) == Deliver(h, h.nodes[id].obs, sig)

\* ---------------------------------------------------------------- Subject
\* Mutant of SubjectForEach: the array that is this.observers at each visit
\* is read, up to its length at that visit.
RECURSIVE SubjectForEachLive(_, _, _, _)
SubjectForEachLive(h, snapshot, k, sig) ==
  IF k > Len(h.observers) THEN h
  ELSE SubjectForEachLive(ObserverCall(h, h.observers[k], sig), snapshot, k + 1, sig)

RECURSIVE SubjectForEach(_, _, _, _)
SubjectForEach(h, snapshot, k, sig) ==
  IF k > Len(snapshot) THEN h
  ELSE SubjectForEach(ObserverCall(h, snapshot[k], sig), snapshot, k + 1, sig)

\* Subject.next/error/complete: forEach over the array that is this.observers
\* when the call starts (dispose replaces the array, push is past the length
\* forEach read), calling the matching method of each observer.
SubjectBroadcast(h, sig) == SubjectForEach(h, h.observers, 1, sig)

\* Mutant of SubjectSubscribe: the Observer is put first (unshift for push).
SubjectSubscribeUnshift(h, e, obs) ==
  LET id == NextId(h)
      h1 == Alloc(h, NewNode("observer", obs))
  IN [h |-> [h1 EXCEPT !.observers = <<id>> \o @], sub |-> id]

SubjectSubscribe(h, e, obs) ==
  LET id == NextId(h)
      h1 == Alloc(h, NewNode("observer", obs))
  IN [h |-> [h1 EXCEPT !.observers = Append(@, id)], sub |-> id]

\* Mutant of SubjectDispose: the last Observer is removed (pop for filter).
SubjectDisposeLast(h, id) == [h EXCEPT !.observers = SubSeq(@, 1, Len(@) - 1)]

SubjectDispose(h, id) ==
  [h EXCEPT !.observers = SelectSeq(@, LAMBDA o : o # id)]

\* ------------------------------------------------------ creation functions
EmptySubscribe(h, e, obs) ==
  LET id == NextId(h)
      h1 == Alloc(h, NewNode("empty", obs))
  IN [h |-> Deliver(h1, obs, CompleteSig), sub |-> id]

\* Mutant of OfSubscribe: the value and the completion are emitted inside
\* subscribe, with no setTimeout.
OfSubscribeSync(h, e, obs) ==
  LET id == NextId(h)
      h1 == Alloc(h, [NewNode("of", obs) EXCEPT !.value = e.value])
  IN [h |-> Deliver(Deliver(h1, obs, NextSig(e.value)), obs, CompleteSig), sub |-> id]

OfSubscribe(h, e, obs) ==
  LET id == NextId(h)
      h1 == Alloc(h, [NewNode("of", obs) EXCEPT !.value = e.value])
  IN [h |-> [h1 EXCEPT !.timers = Append(@, id)], sub |-> id]

\* The callback of() hands to setTimeout.
OfTimeout(h, id) ==
  LET nd == h.nodes[id]
      h1 == Deliver(h, nd.obs, NextSig(nd.value))
  IN Deliver(h1, nd.obs, CompleteSig)

FromSubscribe(h, e, obs) ==
  LET id == NextId(h)
      h1 == Alloc(h, [NewNode("from", obs) EXCEPT !.values = e.values])
  IN [h |-> [h1 EXCEPT !.timers = Append(@, id)], sub |-> id]

\* Mutant of FromForEach: every value is emitted, isdisposed is not tested.
RECURSIVE FromForEachUnchecked(_, _, _)
FromForEachUnchecked(h, id, k) ==
  IF k > Len(h.nodes[id].values) THEN h
  ELSE FromForEachUnchecked(Deliver(h, h.nodes[id].obs, NextSig(h.nodes[id].values[k])), id, k + 1)

RECURSIVE FromForEach(_, _, _)
FromForEach(h, id, k) ==
  LET nd == h.nodes[id]
  IN IF k > Len(nd.values)
     THEN h
     ELSE FromForEach(IF ~nd.isdisposed THEN Deliver(h, nd.obs, NextSig(nd.values[k])) ELSE h, id, k + 1)

\* Mutant of FromTimeout: complete is called without testing isdisposed.
FromTimeoutAlwaysCompletes(h, id) ==
  LET h1 == FromForEach(h, id, 1)
  IN Deliver(h1, h1.nodes[id].obs, CompleteSig)

\* The callback from() hands to setTimeout.
FromTimeout(h, id) ==
  LET h1 == FromForEach(h, id, 1)
  IN IF ~h1.nodes[id].isdisposed THEN Deliver(h1, h1.nodes[id].obs, CompleteSig) ELSE h1

\* Mutant of FlagDispose: one isdisposed flag for every subscription (the flag
\* declared outside the subscribe function).
FlagDisposeShared(h, id) ==
  [h EXCEPT !.nodes = [j \in 1..Len(@) |->
                        IF @[j].kind = h.nodes[id].kind THEN [@[j] EXCEPT !.isdisposed = TRUE] ELSE @[j]]]

\* The dispose of empty(), of() and from(): it sets the flag and nothing else.
FlagDispose(h, id) ==
  IF ~h.nodes[id].isdisposed THEN [h EXCEPT !.nodes[id].isdisposed = TRUE] ELSE h

\* Mutant of RangeValues: the loop stops before max (i < max for i <= max).
RECURSIVE RangeValuesExclusive(_, _)
RangeValuesExclusive(min, max) ==
  IF min >= max THEN <<>> ELSE <<Num(min)>> \o RangeValuesExclusive(min + 1, max)

RECURSIVE RangeValues(_, _)
RangeValues(min, max) == IF min > max THEN <<>> ELSE <<Num(min)>> \o RangeValues(min + 1, max)

Range(min, max) == From(RangeValues(min, max))

IntervalSubscribe(h, e, obs) ==
  LET id == NextId(h)
  IN [h |-> Alloc(h, [NewNode("interval", obs) EXCEPT !.intervalHandler = TRUE]), sub |-> id]

\* The callback interval() hands to setInterval.
IntervalTick(h, id) ==
  LET h1 == Deliver(h, h.nodes[id].obs, NextSig(Num(h.nodes[id].i)))
  IN IF h1.thrown THEN h1 ELSE [h1 EXCEPT !.nodes[id].i = @ + 1]

\* Mutant of IntervalDispose: the flag is set and the timer is not cleared.
IntervalDisposeNoClear(h, id) ==
  IF ~h.nodes[id].isdisposed THEN [h EXCEPT !.nodes[id].isdisposed = TRUE] ELSE h

IntervalDispose(h, id) ==
  IF ~h.nodes[id].isdisposed
  THEN [h EXCEPT !.nodes[id].intervalHandler = FALSE, !.nodes[id].isdisposed = TRUE]
  ELSE h

RECURSIVE MergeForEach(_, _, _, _)
MergeForEach(h, id, sources, k) ==
  IF k > Len(sources) THEN h
  ELSE LET r == Subscribe(h, sources[k], Ref(id, "src", k))
       IN MergeForEach([r.h EXCEPT !.nodes[id].subscriptions = Append(@, r.sub)], id, sources, k + 1)

MergeSubscribe(h, e, obs) ==
  LET id == NextId(h)
      h1 == Alloc(h, NewNode("merge", obs))
  IN [h |-> MergeForEach(h1, id, e.sources, 1), sub |-> id]

\* The complete callback merge() hands to every source.
MergeComplete(h, id) ==
  LET h1 == [h EXCEPT !.nodes[id].completeCount = @ + 1]
  IN IF h1.nodes[id].completeCount = Len(h1.nodes[id].subscriptions)
     THEN Deliver(h1, h1.nodes[id].obs, CompleteSig)
     ELSE h1

RECURSIVE DisposeForEach(_, _, _)
DisposeForEach(h, subscriptions, k) ==
  IF k > Len(subscriptions) THEN h
  ELSE DisposeForEach(Dispose(h, subscriptions[k]), subscriptions, k + 1)

\* Mutant of SubscriptionsDispose: only the first Subscription pushed is
\* disposed.
SubscriptionsDisposeFirst(h, id) ==
  IF h.nodes[id].subscriptions = <<>> THEN h ELSE Dispose(h, h.nodes[id].subscriptions[1])

\* The dispose of merge() and of mergeMap(): every subscription pushed so far.
SubscriptionsDispose(h, id) == DisposeForEach(h, h.nodes[id].subscriptions, 1)

\* ------------------------------------------------------------ DOM events
\* element.removeEventListener(eventName, handler): the listener that is that
\* function is taken off, when it is on.
RemoveEventListener(h, handler) ==
  [h EXCEPT !.dom.listeners = SelectSeq(@, LAMBDA l : l # handler)]

\* fromEvent: eventHandler and isdisposed are this subscribe call's own; the
\* handler is identified by the closure that created it.
FromEventSubscribe(h, e, obs) ==
  LET id == NextId(h)
      h1 == Alloc(h, NewNode("fromEvent", obs))
  IN [h |-> [h1 EXCEPT !.dom.listeners = Append(@, id)], sub |-> id]

FromEventDispose(h, id) ==
  IF ~h.nodes[id].isdisposed
  THEN [RemoveEventListener(h, id) EXCEPT !.nodes[id].isdisposed = TRUE]
  ELSE h

\* ElementWrapper.addEventListener$: eventHandler and isdisposed are
\* declared outside the subscribe function, one of each per Observable; each
\* subscribe call assigns eventHandler a new function and registers it.
AddEventListenerSubscribe(h, e, obs) ==
  LET id == NextId(h)
      h1 == Alloc(h, NewNode("addEventListener$", obs))
  IN [h |-> [h1 EXCEPT !.dom.eventHandler = id, !.dom.listeners = Append(@, id)], sub |-> id]

AddEventListenerDispose(h, id) ==
  IF ~h.dom.isdisposed
  THEN [RemoveEventListener(h, h.dom.eventHandler) EXCEPT !.dom.isdisposed = TRUE]
  ELSE h

\* The element dispatches an event: every listener registered when the
\* dispatch starts is called, in registration order; each calls
\* observer.next with the event.
RECURSIVE DispatchForEach(_, _, _, _)
DispatchForEach(h, listeners, k, event) ==
  IF k > Len(listeners) THEN h
  ELSE DispatchForEach(Deliver(h, h.nodes[listeners[k]].obs, NextSig(event)), listeners, k + 1, event)

DispatchEvent(h, event) == DispatchForEach(h, h.dom.listeners, 1, event)

\* -------------------------------------------------------------- operators
\* The subscribe function of take, do, map and join: subscribe to the source
\* with this closure's callbacks and keep the Subscription.
OperatorSubscribe(h, node, src) ==
  LET id == NextId(h)
      r == Subscribe(Alloc(h, node), src, Ref(id, "src", 0))
  IN [h |-> [r.h EXCEPT !.nodes[id].subscription = r.sub], sub |-> id]

TakeSubscribe(h, e, obs) == OperatorSubscribe(h, [NewNode("take", obs) EXCEPT !.n = e.n], e.src)

\* Mutant of TakeNext: the n-th value is forwarded and complete is called, and
\* the subscription to the source is not disposed.
TakeNextUndisposed(h, id, value) ==
  LET n == h.nodes[id].n
      obs == h.nodes[id].obs
      h1 == IF h.nodes[id].i < n - 1 THEN Deliver(h, obs, NextSig(value)) ELSE h
      h2 == IF h1.nodes[id].i = n - 1
            THEN Deliver(Deliver(h1, obs, NextSig(value)), obs, CompleteSig)
            ELSE h1
  IN IF h2.thrown THEN h2 ELSE [h2 EXCEPT !.nodes[id].i = @ + 1]

\* The next callback take() hands to its source.
TakeNext(h, id, value) ==
  LET n == h.nodes[id].n
      obs == h.nodes[id].obs
      h1 == IF h.nodes[id].i < n - 1 THEN Deliver(h, obs, NextSig(value)) ELSE h
      h2 == IF h1.nodes[id].i = n - 1
            THEN LET h3 == Deliver(h1, obs, NextSig(value))
                     h4 == Deliver(h3, obs, CompleteSig)
                 IN Dispose(h4, h4.nodes[id].subscription)
            ELSE h1
  IN IF h2.thrown THEN h2 ELSE [h2 EXCEPT !.nodes[id].i = @ + 1]

\* The dispose of take, do, map and join.
OperatorDispose(h, id) == Dispose(h, h.nodes[id].subscription)

DoSubscribe(h, e, obs) == OperatorSubscribe(h, NewNode("do", obs), e.src)

\* The callbacks do() hands to its source: toDo first, then the observer.
DoCall(h, id, sig) ==
  LET h1 == [h EXCEPT !.trace = Append(@, [node |-> id, port |-> "toDo", k |-> 0, sig |-> sig])]
  IN Deliver(h1, h1.nodes[id].obs, sig)

MapSubscribe(h, e, obs) == OperatorSubscribe(h, [NewNode("map", obs) EXCEPT !.fn = e.fn], e.src)

\* Mutant of MapNext: the value is handed on as it came.
MapNextUnmapped(h, id, value) == Deliver(h, h.nodes[id].obs, NextSig(value))

\* The exception map(value) throws leaves the callback: recorded, not caught.
Throw(h, id, value) ==
  [h EXCEPT !.thrown = TRUE,
            !.trace = Append(@, [node |-> id, port |-> "throw", k |-> 0, sig |-> NextSig(value)])]

\* Mutant of MapNext: the exception is caught and handed to observer.error.
MapNextCaught(h, id, value) ==
  IF Throws(h.nodes[id].fn, value)
  THEN Deliver(h, h.nodes[id].obs, ErrorSig("thrown"))
  ELSE Deliver(h, h.nodes[id].obs, NextSig(ApplyMap(h.nodes[id].fn, value)))

MapNext(h, id, value) ==
  IF Throws(h.nodes[id].fn, value)
  THEN Throw(h, id, value)
  ELSE Deliver(h, h.nodes[id].obs, NextSig(ApplyMap(h.nodes[id].fn, value)))

MergeMapSubscribe(h, e, obs) ==
  LET id == NextId(h)
      r == Subscribe(Alloc(h, [NewNode("mergeMap", obs) EXCEPT !.fn = e.fn]), e.src, Ref(id, "outer", 0))
  IN [h |-> [r.h EXCEPT !.nodes[id].subscriptions = Append(@, r.sub)], sub |-> id]

\* The next callback mergeMap() hands to the outer source.
MergeMapNext(h, id, value) ==
  LET r == Subscribe(h, ApplyMergeMap(h.nodes[id].fn, value), Ref(id, "inner", 0))
  IN IF r.h.thrown THEN r.h ELSE [r.h EXCEPT !.nodes[id].subscriptions = Append(@, r.sub)]

\* function error(err) of mergeMap.
MergeMapError(h, id, sig) == Deliver(h, h.nodes[id].obs, sig)

\* function complete() of mergeMap, shared by the outer and every inner.
MergeMapComplete(h, id) ==
  LET h1 == [h EXCEPT !.nodes[id].completeCount = @ + 1]
  IN IF h1.nodes[id].completeCount = Len(h1.nodes[id].subscriptions)
     THEN Deliver(h1, h1.nodes[id].obs, CompleteSig)
     ELSE h1

JoinSubscribe(h, e, obs) == OperatorSubscribe(h, NewNode("join", obs), e.src)

\* Mutant of JoinNext: the value is put first (unshift for push).
JoinNextUnshift(h, id, value) == [h EXCEPT !.nodes[id].values = <<value>> \o @]

JoinNext(h, id, value) == [h EXCEPT !.nodes[id].values = Append(@, value)]

\* The complete callback join() hands to its source.  The array is emitted as
\* it is at that call.
JoinComplete(h, id) ==
  LET h1 == Deliver(h, h.nodes[id].obs, NextSig(Arr(h.nodes[id].values)))
  IN Deliver(h1, h1.nodes[id].obs, CompleteSig)

\* ------------------------------------------------------------ the caller
\* The callbacks of the code that subscribed.  They are recorded in the trace
\* by Deliver; a "reemit" subscriber calls subject.next from inside its next
\* callback, budget times at most.
SinkReemit(h, id, sig) ==
  IF sig.t = "next" /\ h.nodes[id].budget > 0
  THEN SubjectBroadcast([h EXCEPT !.nodes[id].budget = @ - 1], NextSig(Num(sig.v.n + 10)))
  ELSE h

\* A "dispose" subscriber counts the values it receives and, inside the next
\* callback of the budget-th, disposes the Subscription its subscribe call
\* returned.  Calls made from inside a callback are recorded with port
\* "callback".
SinkDisposeAt(h, id, sig) ==
  IF sig.t = "next" /\ h.nodes[id].budget > 0
  THEN LET h1 == [h EXCEPT !.nodes[id].budget = @ - 1]
       IN IF h1.nodes[id].budget = 0
          THEN Dispose(Mark(h1, id, "callback", DisposeSig), h1.nodes[id].subscription)
          ELSE h1
  ELSE h

\* A "disposeOthers" subscriber disposes, inside each of its callbacks, the
\* Subscriptions the caller's other subscribe calls returned.
RECURSIVE SinkDisposeOthers(_, _, _)
SinkDisposeOthers(h, id, k) ==
  IF k > Len(subs) THEN h
  ELSE SinkDisposeOthers(IF subs[k].sink = id THEN h
                         ELSE Dispose(Mark(h, subs[k].sink, "callback", DisposeSig), subs[k].sub),
                         id, k + 1)

\* A "subscribe" subscriber subscribes a new observer to the Subject from
\* inside a callback, budget times at most.
SinkSubscribe(h, id, sig) ==
  IF h.nodes[id].budget > 0
  THEN LET sink == NextId(h)
           h1 == Alloc([h EXCEPT !.nodes[id].budget = @ - 1], NewNode("sink", NoRef))
       IN Subscribe(Mark(h1, sink, "callback", SubscribeSig), SubjectObs, Ref(sink, "cb", 0)).h
  ELSE h

SinkCall(h, id, sig) ==
  CASE h.nodes[id].react = "reemit" -> SinkReemit(h, id, sig)
    [] h.nodes[id].react = "dispose" -> SinkDisposeAt(h, id, sig)
    [] h.nodes[id].react = "disposeOthers" -> SinkDisposeOthers(h, id, 1)
    [] h.nodes[id].react = "subscribe" -> SinkSubscribe(h, id, sig)
    [] OTHER -> h

\* ------------------------------------------------------------- dispatch
\* Observable.subscribe: run the subscribe function the expression stands for.
\* No subscribe function of the library calls next before it returns, so
\* nothing is thrown inside one; after a throw none is reached.
Subscribe(h, e, obs) ==
  CASE h.thrown -> [h |-> h, sub |-> 0]
    [] e.op = "empty" -> EmptySubscribe(h, e, obs)
    [] e.op = "of" -> OfSubscribe(h, e, obs)
    [] e.op = "from" -> FromSubscribe(h, e, obs)
    [] e.op = "interval" -> IntervalSubscribe(h, e, obs)
    [] e.op = "subject" -> SubjectSubscribe(h, e, obs)
    [] e.op = "merge" -> MergeSubscribe(h, e, obs)
    [] e.op = "take" -> TakeSubscribe(h, e, obs)
    [] e.op = "do" -> DoSubscribe(h, e, obs)
    [] e.op = "map" -> MapSubscribe(h, e, obs)
    [] e.op = "mergeMap" -> MergeMapSubscribe(h, e, obs)
    [] e.op = "join" -> JoinSubscribe(h, e, obs)
    [] e.op = "fromEvent" -> FromEventSubscribe(h, e, obs)
    [] e.op = "addEventListener$" -> AddEventListenerSubscribe(h, e, obs)

\* A call of the callback ref: recorded, then run.
Deliver(h, ref, sig) ==
  LET id == ref.node
      kind == h.nodes[id].kind
      h0 == [h EXCEPT !.trace = Append(@, [node |-> id, port |-> ref.port, k |-> ref.k, sig |-> sig])]
  IN CASE h.thrown -> h
       [] kind = "sink" -> SinkCall(h0, id, sig)
       [] kind = "take" -> IF sig.t = "next" THEN TakeNext(h0, id, sig.v) ELSE ObserverCall(h0, id, sig)
       [] kind = "do" -> DoCall(h0, id, sig)
       [] kind = "map" -> IF sig.t = "next" THEN MapNext(h0, id, sig.v) ELSE ObserverCall(h0, id, sig)
       [] kind = "join" ->
            CASE sig.t = "next" -> JoinNext(h0, id, sig.v)
              [] sig.t = "error" -> ObserverCall(h0, id, sig)
              [] OTHER -> JoinComplete(h0, id)
       [] kind = "merge" -> IF sig.t = "complete" THEN MergeComplete(h0, id) ELSE ObserverCall(h0, id, sig)
       [] kind = "mergeMap" ->
            CASE sig.t = "complete" -> MergeMapComplete(h0, id)
              [] sig.t = "error" -> MergeMapError(h0, id, sig)
              [] ref.port = "outer" -> MergeMapNext(h0, id, sig.v)
              [] OTHER -> ObserverCall(h0, id, sig)

\* Subscription.dispose of the Subscription the closure id returned.  A
\* Subscription not yet assigned (0) is not disposed: no source of this
\* library calls next inside subscribe, so take never reaches that case.
Dispose(h, id) ==
  IF id = 0 \/ h.thrown THEN h
  ELSE LET kind == h.nodes[id].kind
       IN CASE kind \in {"empty", "of", "from"} -> FlagDispose(h, id)
            [] kind = "interval" -> IntervalDispose(h, id)
            [] kind = "observer" -> SubjectDispose(h, id)
            [] kind \in {"merge", "mergeMap"} -> SubscriptionsDispose(h, id)
            [] kind = "fromEvent" -> FromEventDispose(h, id)
            [] kind = "addEventListener$" -> AddEventListenerDispose(h, id)
            [] OTHER -> OperatorDispose(h, id)

\* ---------------------------------------------------------------- programs
NumArrays == {[k \in DOMAIN a |-> Num(a[k])] : a \in Arrays}
TakeCounts == -1..MaxTake

\* e: the Observable; subscribers: how many times the caller subscribes to it;
\* react, budget: what the caller's next callback does; subject: whether the
\* caller holds the Subject the Observable was built on.
Program(e, subject) == [e |-> e, subscribers |-> 1, react |-> "none", budget |-> 0, subject |-> subject]
Shared(e, subject) == [Program(e, subject) EXCEPT !.subscribers = MaxSubs]
Reemitting(e, budget) == [Program(e, TRUE) EXCEPT !.react = "reemit", !.budget = budget]
Reacting(react, budget) == [Shared(SubjectObs, TRUE) EXCEPT !.react = react, !.budget = budget]
Disposing(e, budget) == [Program(e, FALSE) EXCEPT !.react = "dispose", !.budget = budget]

\* Sources with no Subject in them, and the one with.
ColdSources == {Empty, Of(Num(1)), Interval} \cup {From(a) : a \in NumArrays}
MergeSources == {Empty, Of(Num(1)), From(<<Num(1), Num(2)>>), SubjectObs}
MergeLists == UNION {[1..k -> MergeSources] : k \in 1..MaxSources}
HasSubject(list) == \E k \in DOMAIN list : list[k] = SubjectObs

\* Operator chains over a source with no Subject in it, for a caller that
\* subscribes to the same Observable more than once.
Chains(src) == {Take(src, 2), Do(src), Join(Take(src, 2)), Map(Take(src, 1), "double")}
ChainSources == {Interval, Of(Num(1)), From(<<Num(1), Num(2)>>)}
ColdShared ==
  {Shared(e, FALSE) : e \in ChainSources \cup {Range(0, 2)} \cup UNION {Chains(src) : src \in ChainSources}}

\* Programs whose map function throws on the value 2: over from alone, behind
\* do and take, and as the second of three Subject observers (merge
\* subscribes its sources in order).
ThrowingPrograms ==
  {Program(e, FALSE) : e \in UNION {{Map(From(a), "incOrThrow"), Map(Do(From(a)), "incOrThrow"),
                                     Map(Take(From(a), 1), "incOrThrow")} : a \in NumArrays}}
  \cup {Program(Merge(<<SubjectObs, Map(SubjectObs, "incOrThrow"), SubjectObs>>), TRUE)}

\* The arguments handed to range.
RangeEnds == -1..(MaxVal + 1)

\* source.map(f).map(g) and source.map(v => g(f(v))).
MapChains(src) ==
  {Map(Map(src, f), g) : f \in MapFns, g \in MapFns}
  \cup {Map(src, Compose(f, g)) : f \in MapFns, g \in MapFns}

\* interval(500).mergeMap((i) => of(i)).take(10).join() of index.ts.
DemoPipeline == Join(Take(MergeMap(Interval, "of"), DemoTake))

Programs ==
  {Shared(e, FALSE) : e \in ColdSources \cup {Of(Num(v)) : v \in Vals}}
  \cup {Shared(Range(min, max), FALSE) : min \in RangeEnds, max \in RangeEnds}
  \cup ColdShared
  \cup {Shared(SubjectObs, TRUE)}
  \cup {Program(Take(src, n), FALSE) : src \in ColdSources \cup {Join(From(<<Num(1), Num(2)>>))}, n \in TakeCounts}
  \cup {Program(Take(SubjectObs, n), TRUE) : n \in TakeCounts}
  \cup {Reemitting(Take(SubjectObs, n), b) : n \in TakeCounts, b \in 1..MaxReemit}
  \cup {Program(Merge(l), HasSubject(l)) : l \in MergeLists}
  \cup {Program(MergeMap(src, fn), FALSE) : src \in ColdSources, fn \in {"of", "empty", "from"}}
  \cup {Program(MergeMap(SubjectObs, fn), TRUE) : fn \in {"of", "empty", "from"}}
  \cup {Program(MergeMap(src, "interval"), FALSE) : src \in {Interval} \cup {From(a) : a \in NumArrays}}
  \cup {Program(Join(src), FALSE) : src \in ColdSources}
  \cup {Program(Join(SubjectObs), TRUE)}
  \cup {Program(Map(From(a), "double"), FALSE) : a \in NumArrays}
  \cup {Program(e, FALSE) : e \in UNION {MapChains(src) : src \in {From(a) : a \in NumArrays} \cup {Interval}}}
  \cup {Program(e, TRUE) : e \in MapChains(SubjectObs)}
  \cup {Program(Do(From(a)), FALSE) : a \in NumArrays}
  \cup {Disposing(From(a), b) : a \in NumArrays, b \in 1..MaxLen}
  \cup ThrowingPrograms
  \cup {Reacting("disposeOthers", 0), Reacting("subscribe", 1)}
  \cup {Shared(FromEvent, FALSE), Shared(AddEventListener, FALSE)}
  \cup {Program(DemoPipeline, FALSE)}

\* ------------------------------------------------------------------ trace

DisposeCalls(k) == Len(SelectSeq(trace, LAMBDA c : c.node = subs[k].sink /\ c.port = "caller" /\ c.sig.t = "dispose"))
AllDisposeCalls == Len(SelectSeq(trace, LAMBDA c : c.port = "caller" /\ c.sig.t = "dispose"))
\* The setInterval callbacks run so far: every one incremented its i.
RECURSIVE TicksOf(_)
TicksOf(ns) == IF ns = <<>> THEN 0 ELSE (IF Head(ns).kind = "interval" THEN Head(ns).i ELSE 0) + TicksOf(Tail(ns))
SubjectCalls == Len(SelectSeq(trace, LAMBDA c : c.port = "subject"))
Events == Len(SelectSeq(trace, LAMBDA c : c.port = "dom"))

\* ---------------------------------------------------------------- actions
Commit(h) ==
  /\ nodes' = h.nodes
  /\ timers' = h.timers
  /\ observers' = h.observers
  /\ trace' = h.trace
  /\ dom' = h.dom

Init ==
  /\ prog \in Programs
  /\ nodes = <<>>
  /\ timers = <<>>
  /\ observers = <<>>
  /\ trace = <<>>
  /\ subs = <<>>
  /\ dom = NoListeners

\* The caller: observable.subscribe(next, error, complete).
UserSubscribe ==
  /\ Len(subs) < prog.subscribers
  /\ LET sink == NextId(Heap)
         h1 == Alloc(Heap, [NewNode("sink", NoRef) EXCEPT !.react = prog.react, !.budget = prog.budget])
         r == Subscribe(Mark(h1, sink, "caller", SubscribeSig), prog.e, Ref(sink, "cb", 0))
         h2 == [r.h EXCEPT !.nodes[sink].subscription = r.sub]
     IN /\ Commit(Mark(h2, sink, "caller", ReturnedSig))
        /\ subs' = Append(subs, [sink |-> sink, sub |-> r.sub])
  /\ UNCHANGED prog

\* The caller: subscription.dispose().
UserDispose(k) ==
  /\ AllDisposeCalls < MaxDispose
  /\ Commit(Dispose(Mark(Heap, subs[k].sink, "caller", DisposeSig), subs[k].sub))
  /\ UNCHANGED <<prog, subs>>

\* The oldest pending setTimeout callback is taken off the queue and run.
TimeoutCallback(h) ==
  LET id == Head(h.timers)
      h1 == [h EXCEPT !.timers = Tail(@)]
  IN IF h1.nodes[id].kind = "of" THEN OfTimeout(h1, id) ELSE FromTimeout(h1, id)

\* The event loop runs the oldest pending setTimeout callback: all are set
\* with delay 0, and timers of one delay run in the order they were set.
TimerFire ==
  /\ timers # <<>>
  /\ Commit(TimeoutCallback(Heap))
  /\ UNCHANGED <<prog, subs>>

\* The event loop runs a setInterval callback that was not cleared.
Tick(id) ==
  /\ nodes[id].kind = "interval"
  /\ nodes[id].intervalHandler
  /\ TicksOf(nodes) < MaxTicks
  /\ Commit(IntervalTick(Heap, id))
  /\ UNCHANGED <<prog, subs>>

\* The caller: subject.next(value), subject.error(err), subject.complete().
SubjectCall(sig) ==
  /\ prog.subject
  /\ SubjectCalls < MaxCalls
  /\ Commit(SubjectBroadcast(Mark(Heap, 0, "subject", sig), sig))
  /\ UNCHANGED <<prog, subs>>

\* The browser dispatches the next event (events are numbered) on the element.
DomEvent ==
  /\ Events < MaxEvents
  /\ LET event == Num(Events + 1)
     IN Commit(DispatchEvent(Mark(Heap, 0, "dom", NextSig(event)), event))
  /\ UNCHANGED <<prog, subs>>

\* The event loop runs the setInterval callback of the demo pipeline, which
\* take(10) lets run ten times and more, while at most MaxPending - 1 of the
\* of(i) timers set by earlier ticks have not run yet.
DemoTick(id) ==
  /\ nodes[id].kind = "interval"
  /\ nodes[id].intervalHandler
  /\ TicksOf(nodes) < MaxDemoTicks
  /\ Len(timers) < MaxPending
  /\ Commit(IntervalTick(Heap, id))
  /\ UNCHANGED <<prog, subs>>

SubjectNext == \E v \in Vals : SubjectCall(NextSig(Num(v)))
SubjectError == SubjectCall(ErrorSig("err"))
SubjectComplete == SubjectCall(CompleteSig)

Next ==
  \/ UserSubscribe
  \/ \E k \in 1..Len(subs) : UserDispose(k)
  \/ TimerFire
  \/ \E id \in 1..Len(nodes) : Tick(id)
  \/ SubjectNext
  \/ SubjectError
  \/ SubjectComplete

Spec == Init /\ [][Next]_vars

\* The same machine started on one family of programs, with the steps that
\* family can take.
NextTimers ==
  \/ UserSubscribe
  \/ \E k \in 1..Len(subs) : UserDispose(k)
  \/ TimerFire

NextInterval ==
  \/ UserSubscribe
  \/ \E k \in 1..Len(subs) : UserDispose(k)
  \/ \E id \in 1..Len(nodes) : Tick(id)

NextCold ==
  \/ UserSubscribe
  \/ \E k \in 1..Len(subs) : UserDispose(k)
  \/ TimerFire
  \/ \E id \in 1..Len(nodes) : Tick(id)

NextEmit ==
  \/ UserSubscribe
  \/ \E k \in 1..Len(subs) : UserDispose(k)
  \/ TimerFire
  \/ SubjectNext
  \/ SubjectError
  \/ SubjectComplete

\* Subscribers that dispose and subscribe from inside their callbacks: the
\* caller itself only subscribes and calls the Subject.
NextReacting ==
  \/ UserSubscribe
  \/ SubjectNext
  \/ SubjectError
  \/ SubjectComplete

NextDom ==
  \/ UserSubscribe
  \/ \E k \in 1..Len(subs) : UserDispose(k)
  \/ DomEvent

NextSubject ==
  \/ UserSubscribe
  \/ \E k \in 1..Len(subs) : UserDispose(k)
  \/ SubjectNext
  \/ SubjectError
  \/ SubjectComplete

InitTakeFrom == Init /\ prog.e.op = "take" /\ prog.e.src.op = "from"
SpecTakeFrom == InitTakeFrom /\ [][NextTimers]_vars

InitOf == Init /\ prog.e.op = "of"
SpecOf == InitOf /\ [][NextTimers]_vars

InitSubject == Init /\ prog.e.op = "subject" /\ prog.react = "none"
SpecSubject == InitSubject /\ [][NextSubject]_vars

InitInterval == Init /\ prog.e.op = "interval"
SpecInterval == InitInterval /\ [][NextInterval]_vars

InitJoin == Init /\ prog.e.op = "join"
SpecJoin == InitJoin /\ [][Next]_vars

InitRange == Init /\ \E min \in RangeEnds, max \in RangeEnds : prog = Shared(Range(min, max), FALSE)
SpecRange == InitRange /\ [][NextTimers]_vars

InitCold == Init /\ prog \in ColdShared
SpecCold == InitCold /\ [][NextCold]_vars

InitFromDisposing == Init /\ prog.e.op = "from" /\ prog.react = "dispose"
SpecFromDisposing == InitFromDisposing /\ [][NextTimers]_vars

InitThrowing == Init /\ prog \in ThrowingPrograms
SpecThrowing == InitThrowing /\ [][NextEmit]_vars

InitSubjectReacting == Init /\ prog.e.op = "subject" /\ prog.react # "none"
SpecSubjectReacting == InitSubjectReacting /\ [][NextReacting]_vars

InitMergeMap ==
  Init /\ prog.e.op = "mergeMap" /\ prog.e.src.op \in {"interval", "from"} /\ prog.e.fn \in {"interval", "from"}
SpecMergeMap == InitMergeMap /\ [][NextCold]_vars

InitDom == Init /\ prog.e.op \in {"fromEvent", "addEventListener$"}
SpecDom == InitDom /\ [][NextDom]_vars

InitMap == Init /\ prog.e.op = "map"
SpecMap == InitMap /\ [][Next]_vars

\* index.ts subscribes once and never disposes.
NextDemo ==
  \/ UserSubscribe
  \/ TimerFire
  \/ \E id \in 1..Len(nodes) : DemoTick(id)

InitDemo == Init /\ prog.e = DemoPipeline
SpecDemo == InitDemo /\ [][NextDemo]_vars

\* ------------------------------------------------------- reading the trace
IsCb(c, k) == c.node = subs[k].sink /\ c.port = "cb"
IsDispose(c, k) == c.node = subs[k].sink /\ c.port = "caller" /\ c.sig.t = "dispose"
Sigs(events) == [j \in 1..Len(events) |-> events[j].sig]
Min(a, b) == IF a < b THEN a ELSE b

\* What subscriber k's callbacks were called with, in order.
SinkLog(k) == Sigs(SelectSeq(trace, LAMBDA c : IsCb(c, k)))
Count(log, t) == Len(SelectSeq(log, LAMBDA g : g.t = t))
NextsOf(values) == [j \in 1..Len(values) |-> NextSig(values[j])]

\* Positions of the trace where callback `port` (number n) of closure id was
\* called with a signal of type t.
CallsAt(id, port, n, t) ==
  {j \in 1..Len(trace) : trace[j].node = id /\ trace[j].port = port /\ trace[j].k = n /\ trace[j].sig.t = t}
\* Positions where subscriber k's callback was called with a signal of type t.
SinkAt(k, t) == CallsAt(subs[k].sink, "cb", 0, t)
\* Positions where subscriber k called subscribe, got its Subscription
\* ("returned"), called dispose.
CallerAt(k, t) == CallsAt(subs[k].sink, "caller", 0, t)
Before(positions, j) == {m \in positions : m < j}

\* Subscriber k called dispose before any of its callbacks was called.
DisposedFirst(k) ==
  \E j \in 1..Len(trace) : IsDispose(trace[j], k) /\ \A m \in 1..j : ~IsCb(trace[m], k)

\* A callback of subscriber k was called after k called dispose.
CalledAfterDispose(k) ==
  \E j \in 1..Len(trace) : IsDispose(trace[j], k) /\ \E m \in j..Len(trace) : IsCb(trace[m], k)

\* The closures subscriber k's subscribe call created, and how far its own
\* execution has come: whether its timer has run, how often its setInterval
\* callback has.
OwnNodes(k) == subs[k].sink..(IF k < Len(subs) THEN subs[k + 1].sink - 1 ELSE Len(nodes))
OwnTimerPending(k) == \E j \in 1..Len(timers) : timers[j] \in OwnNodes(k)
OwnTicks(k) == TicksOf([j \in 1..Cardinality(OwnNodes(k)) |-> nodes[subs[k].sink + j - 1]])

\* ------------------------------------------------------------------ claims
\* C1: a subscriber to from(values).take(n), n >= 0, that does not dispose
\* before the timer runs receives nothing until the timer callback has run and
\* from then on exactly the first min(n, values.length) values in order
\* followed by one complete: no next or complete follows that completion.
C1_TakeFromLog ==
  (prog.e.op = "take" /\ prog.e.src.op = "from" /\ prog.e.n >= 0) =>
    \A k \in 1..Len(subs) :
      LET values == prog.e.src.values
          expected == NextsOf(SubSeq(values, 1, Min(prog.e.n, Len(values)))) \o <<CompleteSig>>
      IN IF ~OwnTimerPending(k) /\ ~DisposedFirst(k) THEN SinkLog(k) = expected ELSE SinkLog(k) = <<>>

\* C1 witness: take(1) of a two-element array has delivered the first element
\* and the completion.
C1_Witness ==
  /\ prog.e = Take(From(<<Num(2), Num(1)>>), 1)
  /\ Len(subs) = 1
  /\ SinkLog(1) = <<NextSig(Num(2)), CompleteSig>>

\* C7: a subscription to of(v) that is never disposed has received nothing
\* while the timer is pending (so nothing before subscribe returns) and
\* exactly next(v) then complete() once the timer callback has run; error is
\* never called.
C7_OfLog ==
  prog.e.op = "of" =>
    \A k \in 1..Len(subs) :
      DisposeCalls(k) = 0 =>
        /\ IF \E j \in 1..Len(timers) : timers[j] = subs[k].sub
           THEN SinkLog(k) = <<>>
           ELSE SinkLog(k) = <<NextSig(prog.e.value), CompleteSig>>
        /\ \A j \in 1..Len(trace) : IsCb(trace[j], k) => Before(CallerAt(k, "returned"), j) # {}

\* C7 witness: the timer of an undisposed of(1) subscription has run.
C7_Witness ==
  /\ prog.e.op = "of"
  /\ Len(subs) >= 1
  /\ DisposeCalls(1) = 0
  /\ SinkLog(1) = <<NextSig(Num(1)), CompleteSig>>

\* C9: a subscriber to interval(period) receives 0, 1, 2, ... consecutively,
\* one value per tick of its timer, never error or complete, and no callback
\* of it is called after it called dispose.
C9_IntervalLog ==
  prog.e.op = "interval" =>
    \A k \in 1..Len(subs) :
      /\ SinkLog(k) = [j \in 1..nodes[subs[k].sub].i |-> NextSig(Num(j - 1))]
      /\ ~CalledAfterDispose(k)

\* C9 witness: a subscription disposed after one tick, while the other
\* subscription's timer went on to tick twice.
C9_Witness ==
  /\ prog.e.op = "interval"
  /\ Len(subs) = 2
  /\ DisposeCalls(1) > 0
  /\ Len(SinkLog(1)) = 1
  /\ Len(SinkLog(2)) = 2

\* C2: the subscriber of merge(a, b) has complete called at most once, and
\* never before both a and b have each called the complete callback merge
\* handed them.
C2_MergeCompleteOnceAfterBoth ==
  (prog.e.op = "merge" /\ Len(prog.e.sources) = 2) =>
    \A k \in 1..Len(subs) :
      /\ Cardinality(SinkAt(k, "complete")) <= 1
      /\ \A j \in SinkAt(k, "complete") :
           \A s \in 1..2 : Before(CallsAt(subs[k].sub, "src", s, "complete"), j) # {}

\* C3: once the subscriber of source.take(n), n >= 1, has received the n-th
\* value, its complete callback has been called exactly once, whatever the
\* source did afterwards.
C3_TakeCompleteOnce ==
  (prog.e.op = "take" /\ prog.e.n >= 1) =>
    \A k \in 1..Len(subs) :
      Cardinality(SinkAt(k, "next")) >= prog.e.n => Cardinality(SinkAt(k, "complete")) = 1

\* C4: the subscriber of source.mergeMap(fn) has complete called only after
\* the outer source has completed and every inner Observable subscribed so
\* far (one per outer value) has completed.
C4_MergeMapCompleteAfterAll ==
  prog.e.op = "mergeMap" =>
    \A k \in 1..Len(subs) :
      \A j \in SinkAt(k, "complete") :
        /\ Before(CallsAt(subs[k].sub, "outer", 0, "complete"), j) # {}
        /\ Cardinality(Before(CallsAt(subs[k].sub, "inner", 0, "complete"), j))
             >= Cardinality(Before(CallsAt(subs[k].sub, "outer", 0, "next"), j))

\* The values the callbacks at the given trace positions were called with.
RECURSIVE ValuesAt(_)
ValuesAt(positions) ==
  IF positions = {} THEN <<>>
  ELSE LET j == CHOOSE m \in positions : \A o \in positions : m <= o
       IN <<trace[j].sig.v>> \o ValuesAt(positions \ {j})

\* C5: source.take(n) forwards exactly the first n values its source emitted
\* (all of them while fewer than n were emitted, none when n <= 0), each once
\* and in the source's order, for every sequence of source emissions.
C5_TakeForwardsFirstN ==
  prog.e.op = "take" =>
    \A k \in 1..Len(subs) :
      LET emitted == ValuesAt(CallsAt(subs[k].sub, "src", 0, "next"))
          n == IF prog.e.n < 0 THEN 0 ELSE prog.e.n
      IN ValuesAt(SinkAt(k, "next")) = SubSeq(emitted, 1, Min(n, Len(emitted)))

\* C6: once every source handed to merge(...sources) has called the complete
\* callback merge handed it, the subscriber's complete callback has been
\* called exactly once.
C6_MergeCompletesWhenAllDone ==
  prog.e.op = "merge" =>
    \A k \in 1..Len(subs) :
      (\A s \in 1..Len(prog.e.sources) : CallsAt(subs[k].sub, "src", s, "complete") # {})
        => Cardinality(SinkAt(k, "complete")) = 1

\* The callbacks (sinks) on whose behalf the caller made a call of type t
\* before trace position b.
CallersBefore(b, t) ==
  {trace[j].node : j \in {m \in 1..b : trace[m].port = "caller" /\ trace[m].sig.t = t}}
\* The subscribers whose Observer is in Subject.observers when the caller's
\* call at trace position b starts: subscribed before it and not disposed
\* before it, in subscription order.
ActiveAt(b) ==
  LET present == CallersBefore(b, "subscribe") \ CallersBefore(b, "dispose")
  IN SelectSeq([k \in 1..Len(subs) |-> subs[k].sink], LAMBDA sink : sink \in present)
SubjectCallPositions == {j \in 1..Len(trace) : trace[j].port = "subject"}
\* The callback calls made between the caller's call at b and its next call
\* (at `end`, the end of the trace when there is none).
DeliveriesOf(b, end) ==
  LET ev == SelectSeq(SubSeq(trace, b + 1, end - 1), LAMBDA c : c.port = "cb")
  IN [j \in 1..Len(ev) |-> <<ev[j].node, ev[j].sig>>]

\* C8: every Subject.next (error, complete) call is delivered exactly once,
\* with the value of the call, to each subscription made before the call and
\* not disposed before it, in the order the subscriptions were made, and to
\* no other: a subscriber receives every value issued after its subscribe
\* call, in the order of the calls, and none issued before.
C8_SubjectMulticast ==
  prog.e.op = "subject" =>
    LET calls == SubjectCallPositions
    IN \A b \in calls :
         LET active == ActiveAt(b)
             later == {j \in calls : j > b}
             end == IF later = {} THEN Len(trace) + 1 ELSE CHOOSE j \in later : \A m \in later : j <= m
         IN DeliveriesOf(b, end) = [j \in 1..Len(active) |-> <<active[j], trace[b].sig>>]

\* C8 witness: the second subscriber subscribed after next(1) and before
\* next(2): the first received 1 then 2, the second only 2.
C8_Witness ==
  /\ prog.e.op = "subject"
  /\ Len(subs) = 2
  /\ SinkLog(1) = <<NextSig(Num(1)), NextSig(Num(2))>>
  /\ SinkLog(2) = <<NextSig(Num(2))>>

\* What the source of the join() closure id called its callbacks with.
SourceLog(id) == Sigs(SelectSeq(trace, LAMBDA c : c.node = id /\ c.port = "src"))
WithoutErrors(log) == SelectSeq(log, LAMBDA g : g.t # "error")
Errors(log) == SelectSeq(log, LAMBDA g : g.t = "error")

\* C10: the subscriber of source.join() receives every error of the source
\* unchanged; apart from errors it receives nothing while the source has not
\* completed, no value before the source's completion, and once a source has
\* emitted v1..vk and then completed once, exactly one value, the sequence
\* [v1..vk], followed by exactly one complete.
C10_JoinLog ==
  prog.e.op = "join" =>
    \A k \in 1..Len(subs) :
      LET up == SourceLog(subs[k].sub)
          emitted == WithoutErrors(up)
          log == SinkLog(k)
      IN /\ Errors(log) = Errors(up)
         /\ Count(up, "complete") = 0 => WithoutErrors(log) = <<>>
         /\ \A j \in SinkAt(k, "next") : Before(CallsAt(subs[k].sub, "src", 0, "complete"), j) # {}
         /\ (Count(up, "complete") = 1 /\ emitted[Len(emitted)].t = "complete")
              => WithoutErrors(log) =
                   <<NextSig(Arr([j \in 1..Len(emitted) - 1 |-> emitted[j].v])), CompleteSig>>

\* C10 witness: join() over from([2, 1]) has emitted [2, 1] and completed.
C10_Witness ==
  /\ prog.e = Join(From(<<Num(2), Num(1)>>))
  /\ Len(subs) = 1
  /\ SinkLog(1) = <<NextSig(Arr(<<Num(2), Num(1)>>)), CompleteSig>>

\* C11: for pure f and g, the subscriber of source.map(f).map(g) and the
\* subscriber of source.map(v => g(f(v))) both observe exactly what the source
\* called its callbacks with, call for call and in the same order, every next
\* value v replaced by g(f(v)) and every error and complete unchanged: the
\* same sequence for the same source emissions.
C11_MapCompose ==
  \A f \in MapFns, g \in MapFns :
    \A chained \in BOOLEAN :
      (/\ prog.e.op = "map"
       /\ IF chained
          THEN prog.e.fn = g /\ prog.e.src.op = "map" /\ prog.e.src.fn = f
          ELSE prog.e.fn = Compose(f, g))
      => \A k \in 1..Len(subs) :
           LET up == SourceLog(subs[k].sub + (IF chained THEN 1 ELSE 0))
           IN SinkLog(k) = [j \in 1..Len(up) |->
                             IF up[j].t = "next"
                             THEN NextSig(ApplyMap(g, ApplyMap(f, up[j].v)))
                             ELSE up[j]]

\* C11 witness: from([1, 2]).map(inc).map(double) has delivered 4, 6 and the
\* completion.
C11_Witness ==
  /\ prog.e = Map(Map(From(<<Num(1), Num(2)>>), "inc"), "double")
  /\ Len(subs) = 1
  /\ SinkLog(1) = <<NextSig(Num(4)), NextSig(Num(6)), CompleteSig>>

\* The zero-delay timer subscriber k's subscribe call set has not run yet.
TimerPending(k) == \E j \in 1..Len(timers) : timers[j] = subs[k].sub

\* C12: for min <= max, a subscriber to range(min, max) that never disposes
\* has received nothing while its timer is pending and, once it has run,
\* exactly max - min + 1 next calls carrying min, min + 1, ..., max in
\* ascending order followed by exactly one complete.
C12_RangeLog ==
  \A min \in RangeEnds, max \in RangeEnds :
    (min <= max /\ prog.e = Range(min, max)) =>
      \A k \in 1..Len(subs) :
        DisposeCalls(k) = 0 =>
          SinkLog(k) = IF TimerPending(k) THEN <<>>
                       ELSE [j \in 1..(max - min + 1) |-> NextSig(Num(min + j - 1))] \o <<CompleteSig>>

\* C12 witness: range(-1, 1) has delivered -1, 0, 1 and the completion.
C12_Witness ==
  /\ prog.e = Range(-1, 1)
  /\ Len(subs) >= 1
  /\ DisposeCalls(1) = 0
  /\ SinkLog(1) = <<NextSig(Num(-1)), NextSig(Num(0)), NextSig(Num(1)), CompleteSig>>

\* The same Observable subscribed by one caller alone, from a heap with
\* nothing else in it: subscribe, then every pending timer callback when
\* `fired`, then `ticks` setInterval callbacks.
EmptyHeap ==
  [nodes |-> <<>>, timers |-> <<>>, observers |-> <<>>, trace |-> <<>>, thrown |-> FALSE, dom |-> NoListeners]
AloneSubscribe(e) == Subscribe(Alloc(EmptyHeap, NewNode("sink", NoRef)), e, Ref(1, "cb", 0)).h
RECURSIVE AloneTimers(_)
AloneTimers(h) == IF h.timers = <<>> THEN h ELSE AloneTimers(TimeoutCallback(h))
RECURSIVE AloneTicks(_, _)
AloneTicks(h, ticks) ==
  LET ids == {id \in 1..Len(h.nodes) : h.nodes[id].kind = "interval" /\ h.nodes[id].intervalHandler}
  IN IF ticks = 0 \/ ids = {} THEN h ELSE AloneTicks(IntervalTick(h, CHOOSE id \in ids : TRUE), ticks - 1)
AloneLog(e, fired, ticks) ==
  LET h == AloneSubscribe(e)
  IN Sigs(SelectSeq(AloneTicks(IF fired THEN AloneTimers(h) ELSE h, ticks).trace, LAMBDA c : c.port = "cb"))

\* C13: every subscribe call on the same cold Observable starts an execution
\* of its own: a subscriber that has not called dispose has received exactly
\* what a caller subscribing alone receives once its timer has run (its
\* interval has ticked as often), from the first value on, whatever the other
\* subscribers of the Observable did, disposing included.
C13_IndependentExecutions ==
  prog \in ColdShared =>
    \A k \in 1..Len(subs) :
      DisposeCalls(k) = 0 => SinkLog(k) = AloneLog(prog.e, ~OwnTimerPending(k), OwnTicks(k))

\* C13 witness: the first subscriber of interval(p).take(2) disposed after one
\* value; the second, subscribed to the same Observable, received 0, 1 and
\* the completion.
C13_Witness ==
  /\ prog.e = Take(Interval, 2)
  /\ Len(subs) = 2
  /\ DisposeCalls(1) > 0
  /\ SinkLog(1) = <<NextSig(Num(0))>>
  /\ DisposeCalls(2) = 0
  /\ SinkLog(2) = <<NextSig(Num(0)), NextSig(Num(1)), CompleteSig>>

\* What a step added to the trace.
Added == SubSeq(trace', Len(trace) + 1, Len(trace'))

\* C14: a dispose call on the Subscription of subscriber k removes exactly
\* the Observer of that subscribe call from Subject.observers, leaves the
\* others in their order and calls no callback; when that Observer is gone
\* already it changes nothing.  A next/error/complete call reaches every
\* subscriber that has not called dispose, each once, and none that has.
C14_DisposeStep ==
  (prog.e.op = "subject" /\ Added # <<>>) =>
    LET call == Added[1]
        reached == SelectSeq(Tail(Added), LAMBDA c : c.port = "cb")
    IN /\ \A k \in 1..Len(subs) :
            (call.node = subs[k].sink /\ call.port = "caller" /\ call.sig.t = "dispose") =>
              /\ observers' = SelectSeq(observers, LAMBDA o : o # subs[k].sub)
              /\ DisposeCalls(k) > 0 => observers' = observers
              /\ Len(Added) = 1
       /\ call.port = "subject" =>
            /\ observers' = observers
            /\ \A k \in 1..Len(subs) :
                 Len(SelectSeq(reached, LAMBDA c : c.node = subs[k].sink /\ c.sig = call.sig))
                   = IF DisposeCalls(k) = 0 THEN 1 ELSE 0
            /\ Len(reached) = Len(SelectSeq(subs, LAMBDA r : r.sub \in {observers[j] : j \in 1..Len(observers)}))

C14_SubjectDispose == [][C14_DisposeStep]_vars

\* C14 witness: the first of two subscribers disposed twice after next(1);
\* next(2) reached the second only.
C14_Witness ==
  /\ prog.e.op = "subject"
  /\ Len(subs) = 2
  /\ DisposeCalls(1) = 2
  /\ SinkLog(1) = <<NextSig(Num(1))>>
  /\ SinkLog(2) = <<NextSig(Num(1)), NextSig(Num(2))>>
  /\ observers = <<subs[2].sub>>

\* C15: a subscriber to from(values) that disposes its Subscription from
\* inside its next callback while the k-th value is delivered (1 <= k <=
\* values.length, no dispose before the timer ran) has received exactly the
\* first k values once the timer callback has run: no further next and no
\* complete.
C15_FromDisposedMidway ==
  (prog.e.op = "from" /\ prog.react = "dispose" /\ prog.budget <= Len(prog.e.values)) =>
    \A k \in 1..Len(subs) :
      (~TimerPending(k) /\ ~DisposedFirst(k)) =>
        SinkLog(k) = NextsOf(SubSeq(prog.e.values, 1, prog.budget))

\* C15 witness: the subscriber of from([1, 2]) disposed inside the callback
\* of the first value and received that value only.
C15_Witness ==
  /\ prog = Disposing(From(<<Num(1), Num(2)>>), 1)
  /\ Len(subs) = 1
  /\ timers = <<>>
  /\ CallsAt(subs[1].sink, "callback", 0, "dispose") # {}
  /\ SinkLog(1) = <<NextSig(Num(1))>>

\* The heap with every throwing map function replaced by one that returns.
Unthrowing(h) ==
  [h EXCEPT !.nodes = [j \in 1..Len(@) |-> IF @[j].fn = "incOrThrow" THEN [@[j] EXCEPT !.fn = "inc"] ELSE @[j]]]
\* What the step just taken (a Subject call or a timer callback) would have
\* added to the trace had the map function not thrown.
AddedUnthrowing ==
  LET h == Unthrowing(Heap)
      call == Added[1]
      run == IF call.port = "subject"
             THEN SubjectBroadcast(Mark(h, 0, "subject", call.sig), call.sig)
             ELSE TimeoutCallback(h)
  IN SubSeq(run.trace, Len(trace) + 1, Len(run.trace))

\* C16: when the function handed to map throws for a value, the exception is
\* what ends the running delivery: nothing is called after it in the same
\* synchronous run (no later Subject observer, no remaining value or
\* completion of from), no error callback is called in that run, and what was
\* called before it is exactly what the run calls up to that point when the
\* function returns, the rest of that run being left out.
C16_ThrowStep ==
  LET throwing == {j \in 1..Len(Added) : /\ Added[j].port = "src"
                                         /\ Added[j].sig.t = "next"
                                         /\ nodes'[Added[j].node].kind = "map"
                                         /\ Throws(nodes'[Added[j].node].fn, Added[j].sig.v)}
  IN throwing # {} =>
       /\ throwing = {Len(Added) - 1}
       /\ Added[Len(Added)].port = "throw"
       /\ \A j \in 1..Len(Added) : Added[j].sig.t # "error"
       /\ Len(AddedUnthrowing) > Len(Added) - 1
       /\ SubSeq(AddedUnthrowing, 1, Len(Added) - 1) = SubSeq(Added, 1, Len(Added) - 1)

C16_MapThrowAborts == [][C16_ThrowStep]_vars

\* C16 witness: subject.next(2) with three observers, the second behind a
\* map that throws on 2: the first was called, the exception followed, the
\* third was never reached.
C16_Witness ==
  /\ prog.e.op = "merge"
  /\ prog \in ThrowingPrograms
  /\ Len(subs) = 1
  /\ SinkLog(1) = <<NextSig(Num(2))>>
  /\ trace[Len(trace)].port = "throw"
  /\ CallsAt(subs[1].sub, "src", 3, "next") = {}

\* C17: a subscriber to of(value), from(values) or range(min, max) that
\* called dispose before the deferred timer callback ran never has next or
\* complete called.
C17_DisposedBeforeTimerSilent ==
  (prog.e.op \in {"of", "from"} /\ prog.react = "none") =>
    \A k \in 1..Len(subs) : DisposedFirst(k) => SinkLog(k) = <<>>

\* C18: a Subject.next/error/complete call calls the matching callback of
\* exactly the observers that are in Subject.observers when the call starts,
\* each once and in the order they are in there, whatever the callbacks do
\* meanwhile: an observer an earlier callback disposed is still called, an
\* observer a callback subscribed is not.
C18_SnapshotStep ==
  (prog.e.op = "subject" /\ Added # <<>> /\ Added[1].port = "subject") =>
    LET reached == SelectSeq(Tail(Added), LAMBDA c : c.port = "cb")
    IN [j \in 1..Len(reached) |-> <<reached[j].node, reached[j].sig>>]
         = [j \in 1..Len(observers) |-> <<nodes[observers[j]].obs.node, Added[1].sig>>]

C18_SubjectSnapshot == [][C18_SnapshotStep]_vars

\* C18 witness: during next(1) the first subscriber's callback disposed the
\* second's Subscription, and the second's callback was still called with 1.
C18_Witness ==
  /\ prog = Reacting("disposeOthers", 0)
  /\ Len(subs) = 2
  /\ SubjectCalls = 1
  /\ CallsAt(subs[2].sink, "callback", 0, "dispose") # {}
  /\ SinkLog(2) = <<NextSig(Num(1))>>
  /\ \A j \in CallsAt(subs[2].sink, "callback", 0, "dispose") : \E m \in SinkAt(2, "next") : j < m

\* C19: once the Subscription of source.mergeMap(fn), with interval or from
\* as the source and as the inner Observables, has been disposed, the outer
\* subscription and every inner subscription created are disposed (flag set,
\* interval timer cleared), no next or complete of the subscriber is called
\* after the dispose call, and the outer source has not emitted after it: no
\* inner Observable is subscribed any more.
C19_MergeMapDisposed ==
  (prog.e.op = "mergeMap" /\ prog.e.src.op \in {"interval", "from"} /\ prog.e.fn \in {"interval", "from"}) =>
    \A k \in 1..Len(subs) :
      LET ds == CallerAt(k, "dispose")
          created == nodes[subs[k].sub].subscriptions
      IN ds # {} =>
           /\ \A j \in 1..Len(created) : nodes[created[j]].isdisposed /\ ~nodes[created[j]].intervalHandler
           /\ \A d \in ds :
                /\ \A j \in SinkAt(k, "next") \cup SinkAt(k, "complete") : j < d
                /\ \A j \in CallsAt(subs[k].sub, "outer", 0, "next") : j < d

\* C19 witness: interval(p).mergeMap(v => from([v, v])) was disposed after
\* the first tick, while the inner from's timer was pending; that timer then
\* ran and nothing reached the subscriber.
C19_Witness ==
  /\ prog.e = MergeMap(Interval, "from")
  /\ Len(subs) = 1
  /\ DisposeCalls(1) = 1
  /\ Len(nodes[subs[1].sub].subscriptions) = 2
  /\ timers = <<>>
  /\ SinkLog(1) = <<>>

\* The events dispatched on the element after trace position p.
EventsAfter(p) == Sigs(SelectSeq(SubSeq(trace, p + 1, Len(trace)), LAMBDA c : c.port = "dom"))

\* C20: of the subscribers of one Observable addEventListener$ returned, one
\* that disposed has no callback called after its dispose call, one that has
\* not disposed has received every event dispatched since it subscribed, and
\* once every subscription made is disposed no listener is left on the
\* element.
C20_OwnListenerRemoved ==
  prog.e.op = "addEventListener$" =>
    /\ \A k \in 1..Len(subs) :
         /\ ~CalledAfterDispose(k)
         /\ DisposeCalls(k) = 0 => SinkLog(k) = EventsAfter(CHOOSE j \in CallerAt(k, "subscribe") : TRUE)
    /\ (\A k \in 1..Len(subs) : DisposeCalls(k) > 0) => dom.listeners = <<>>

\* The of(i) timers that have run under the demo pipeline: each called the
\* next callback mergeMap handed its inner Observable.
DemoFired == Len(SelectSeq(trace, LAMBDA c : c.port = "inner" /\ c.sig.t = "next"))
\* What the demo's subscriber is called with once take(10) has its ten values.
DemoLog == <<NextSig(Arr([j \in 1..DemoTake |-> Num(j - 1)])), CompleteSig>>

\* C21: the subscriber of interval(p).mergeMap(i => of(i)).take(10).join()
\* is called with nothing before the tenth of(i) timer has run; from then on,
\* whatever the order of interval ticks and of(i) timers was and whichever
\* timers run later, it has been called with exactly one next carrying
\* [0, 1, ..., 9] followed by exactly one complete, and the interval timer
\* is cleared.
C21_DemoPipeline ==
  (prog.e = DemoPipeline /\ Len(subs) = 1) =>
    IF DemoFired >= DemoTake
    THEN /\ SinkLog(1) = DemoLog
         /\ \A id \in 1..Len(nodes) : nodes[id].kind = "interval" => ~nodes[id].intervalHandler
    ELSE SinkLog(1) = <<>>

\* C21 witness: the interval ticked more than ten times before the tenth
\* of(i) timer ran, and the timer of of(10) has run after take completed.
C21_Witness ==
  /\ prog.e = DemoPipeline
  /\ Len(subs) = 1
  /\ DemoFired > DemoTake
  /\ TicksOf(nodes) > DemoTake
  /\ SinkLog(1) = DemoLog

====
